---- MODULE Spec2Model ----
(***************************************************************************)
(* A model of the thorium Win32 / HID / GL binding layer and of its raw    *)
(* input demo program (src/src/bin/main.rs).                               *)
(*                                                                         *)
(* Spec     : the demo program: main, its message loop and win_proc with   *)
(*            the per-device capability cache CAP_DATABASE.                *)
(* SpecFn   : the library's fallible calls, each applied to what its       *)
(*            native calls may return.                                     *)
(* SpecOwn  : the owned handle wrappers (Program, Shader, Texture,         *)
(*            LocalBox, GlobalBuffer, WindowClassAtom, HWND): construction,*)
(*            move, copy, clone, drop and manual release.                  *)
(***************************************************************************)
EXTENDS Integers, Sequences, FiniteSets, TLC

VARIABLES
  pc,            \* main's position
  atom,          \* the WindowClassAtom main holds (0: none yet)
  hwnd,          \* the window handle main holds (0: none yet)
  unregCalls,    \* UnregisterClassW calls made for main's atom
  destroyCalls,  \* DestroyWindow calls made for main's window
  quitPosted,    \* PostQuitMessage was called
  CAP_DATABASE,  \* HashMap<HANDLE, HidInfo>, as a set of [key, val] buckets
  evt,           \* per device handle: the last device-change outcome
  last,          \* what the last loop iteration / win_proc invocation did
  objs,          \* SpecOwn: the wrapper values created so far
  released,      \* SpecOwn: native release calls, per <<release fn, raw>>
  lastCtor,      \* SpecOwn: what the last constructor call returned
  call           \* SpecFn: the last library call made, its arguments and result

vars == <<pc, atom, hwnd, unregCalls, destroyCalls, quitPosted,
          CAP_DATABASE, evt, last, objs, released, lastCtor, call>>

mainVars == <<pc, atom, hwnd, unregCalls, destroyCalls, quitPosted,
              CAP_DATABASE, evt, last>>
ownVars == <<objs, released, lastCtor>>
fnVars == <<call>>

-----------------------------------------------------------------------------
(* Bounds of the model *)

MaxCaps == 1      \* most button / value capabilities a device reports
MaxObjs == 2      \* wrapper values created in SpecOwn
MaxCalls == 2     \* manual release calls made on one native resource
MaxChars == 2     \* UTF-16 units of a system error message

Handles == {1, 2}               \* device handles (HANDLE(0) is null)
ErrorCodes == {5, 87}           \* GetLastError values seen on failure
LastError == CHOOSE e \in ErrorCodes : \A x \in ErrorCodes : e <= x  \* the one win_proc's failures leave behind

-----------------------------------------------------------------------------
(* Result / Option values *)

Ok(v) == [ok |-> TRUE, v |-> <<v>>, e |-> 0]
Err(c) == [ok |-> FALSE, v |-> <<>>, e |-> c]
Some(v) == <<v>>
None == <<>>

-----------------------------------------------------------------------------
(* Program constants *)

RAWINPUTHEADER_SIZE == 24
DWORD_SIZE == 4
\* u32::MAX / UINT::MAX, the (UINT)-1 failure sentinel.  In 32-bit two's
\* complement the all-ones pattern reads -1, and is written so here; every size and
\* count of the model is non-negative and so never equals it.
U32_MAX == -1
RawInputType_MOUSE == 0
RawInputType_HID == 2
HidpStatus_SUCCESS == 1114112
HidpStatus_BUFFER_TOO_SMALL == -1072627705
HidpStatus_INVALID_PREPARSED_DATA == -1072627711
HidpStatus_BAD_LOG_PHY_VALUES == -1072627706
HidpStatus_INVALID_REPORT_LENGTH == -1072627709
HidpStatus_INVALID_REPORT_TYPE == -1072627710
HidpStatus_INCOMPATIBLE_REPORT_ID == -1072627702
HidpStatus_USAGE_NOT_FOUND == -1072627708
HidpStatus_VALUE_OUT_OF_RANGE == -1072627707
NOT_ENOUGH_MEMORY == 8
INVALID_DATA == 13

HidpFailures == {HidpStatus_BUFFER_TOO_SMALL, HidpStatus_INVALID_PREPARSED_DATA}
HidpStatuses == {HidpStatus_SUCCESS} \cup HidpFailures

\* the associated constants of HidpStatus, by name
HidpStatus ==
  [SUCCESS |-> HidpStatus_SUCCESS,
   BAD_LOG_PHY_VALUES |-> HidpStatus_BAD_LOG_PHY_VALUES,
   INVALID_REPORT_LENGTH |-> HidpStatus_INVALID_REPORT_LENGTH,
   INVALID_REPORT_TYPE |-> HidpStatus_INVALID_REPORT_TYPE,
   BUFFER_TOO_SMALL |-> HidpStatus_BUFFER_TOO_SMALL,
   INCOMPATIBLE_REPORT_ID |-> HidpStatus_INCOMPATIBLE_REPORT_ID,
   INVALID_PREPARSED_DATA |-> HidpStatus_INVALID_PREPARSED_DATA,
   USAGE_NOT_FOUND |-> HidpStatus_USAGE_NOT_FOUND,
   VALUE_OUT_OF_RANGE |-> HidpStatus_VALUE_OUT_OF_RANGE]

\* what a HidP_* call may return: a named status, or one the library has
\* no name for (0 stands for those)
NativeStatuses == {HidpStatus[n] : n \in DOMAIN HidpStatus} \cup {0}

-----------------------------------------------------------------------------
(* libloaderapi.rs, winuser.rs: fallible constructors.  Each takes what the *)
(* native call returned and the thread's last-error value.                  *)

\* get_process_instance: GetModuleHandleW(null), null is the failure sentinel
get_process_instance(nativeRet, lastErr) ==
  IF nativeRet = 0 THEN Err(lastErr) ELSE Ok(nativeRet)

\* load_predefined_cursor: LoadCursorW, null is the failure sentinel
load_predefined_cursor(nativeRet, lastErr) ==
  IF nativeRet = 0 THEN Err(lastErr) ELSE Ok(nativeRet)

\* WindowClass::register: get_process_instance()? then RegisterClassExW;
\* the cursor falls back to the null handle when it cannot be loaded
register(instRet, cursorRet, atomRet, lastErr) ==
  LET inst == get_process_instance(instRet, lastErr)
      cursor == LET c == load_predefined_cursor(cursorRet, lastErr)
                IN  IF c.ok THEN c.v[1] ELSE 0
  IN  IF ~inst.ok THEN Err(inst.e)
      ELSE IF atomRet # 0 THEN Ok(atomRet)
      ELSE Err(lastErr)

\* create_window: get_process_instance()? then CreateWindowExW
create_window(instRet, hwndRet, lastErr) ==
  LET inst == get_process_instance(instRet, lastErr)
  IN  IF ~inst.ok THEN Err(inst.e)
      ELSE IF hwndRet = 0 THEN Err(lastErr)
      ELSE Ok(hwndRet)

\* destroy_window: DestroyWindow is called, its BOOL decides the result
destroy_window(boolRet, lastErr) ==
  IF boolRet # 0 THEN Ok(0) ELSE Err(lastErr)

\* WindowClassAtom::unregister: UnregisterClassW is called only when
\* get_process_instance succeeded
unregister_calls_native(instRet) == instRet # 0

unregister(instRet, boolRet, lastErr) ==
  LET inst == get_process_instance(instRet, lastErr)
  IN  IF ~inst.ok THEN Err(inst.e)
      ELSE IF boolRet # 0 THEN Ok(0)
      ELSE Err(lastErr)

\* a faulty register_raw_input_devices that does not test the BOOL
register_raw_input_devices_unchecked(boolRet, lastErr) == Ok(0)

\* register_raw_input_devices: RegisterRawInputDevices' BOOL decides
register_raw_input_devices(boolRet, lastErr) ==
  IF boolRet # 0 THEN Ok(0) ELSE Err(lastErr)

\* get_any_message: Err exactly when GetMessageW returned -1
get_any_message(ret, msg, lastErr) ==
  IF ret = -1 THEN Err(lastErr) ELSE Ok(msg)

-----------------------------------------------------------------------------
(* winuser.rs: RawInputData, a view of the bytes GetRawInputData wrote.     *)
(* A payload is [len, ty, device, count]: its byte length and the header    *)
(* and RAWHID fields, each meaningful only when len covers it.              *)

RawInputs ==
  \* shorter than the header: no field is readable
  {[len |-> 16, ty |-> 0, device |-> 0, count |-> 0]}
  \* a header, and a RAWHID too short to hold size_hid and count
  \cup {[len |-> RAWINPUTHEADER_SIZE + DWORD_SIZE, ty |-> t, device |-> d,
         count |-> 0] : t \in {RawInputType_MOUSE, RawInputType_HID},
                        d \in Handles}
  \* a mouse payload
  \cup {[len |-> RAWINPUTHEADER_SIZE + 2 * DWORD_SIZE, ty |-> RawInputType_MOUSE,
         device |-> d, count |-> 0] : d \in Handles}
  \* a HID payload holding `count` reports
  \cup {[len |-> RAWINPUTHEADER_SIZE + 2 * DWORD_SIZE + 2 * c,
         ty |-> RawInputType_HID, device |-> d, count |-> c] :
          d \in Handles, c \in {0, 1, 2}}

\* RawInputData::handle
handle(data) ==
  IF data.len < RAWINPUTHEADER_SIZE THEN 0 ELSE data.device

\* RawInputData::input_type
input_type(data) ==
  IF data.len < RAWINPUTHEADER_SIZE THEN U32_MAX ELSE data.ty

\* RawInputData::hid_size_hid: [panic, opt]; data_buffer[0..4] panics when
\* the bytes after the header are fewer than 4
hid_size_hid(data) ==
  IF input_type(data) # RawInputType_HID THEN [panic |-> FALSE, opt |-> None]
  ELSE IF data.len < RAWINPUTHEADER_SIZE THEN [panic |-> FALSE, opt |-> None]
  ELSE IF data.len - RAWINPUTHEADER_SIZE < DWORD_SIZE
       THEN [panic |-> TRUE, opt |-> None]
  ELSE [panic |-> FALSE, opt |-> Some(data.size_hid)]

\* RawInputData::hid_count: [panic, opt]; data_buffer[4..8] panics when the
\* bytes after the header are fewer than 8
hid_count(data) ==
  IF input_type(data) # RawInputType_HID THEN [panic |-> FALSE, opt |-> None]
  ELSE IF data.len < RAWINPUTHEADER_SIZE THEN [panic |-> FALSE, opt |-> None]
  ELSE IF data.len - RAWINPUTHEADER_SIZE < 2 * DWORD_SIZE
       THEN [panic |-> TRUE, opt |-> None]
  ELSE [panic |-> FALSE, opt |-> Some(data.count)]

\* RawInputData::hid_raw_data: the report bytes, here their length
hid_raw_data(data) ==
  IF input_type(data) # RawInputType_HID THEN None
  ELSE IF data.len < RAWINPUTHEADER_SIZE THEN None
  ELSE IF data.len - RAWINPUTHEADER_SIZE >= 2 * DWORD_SIZE
       THEN Some(data.len - RAWINPUTHEADER_SIZE - 2 * DWORD_SIZE)
  ELSE None

\* a faulty size query that does not test for the failure sentinel
get_raw_input_data_required_buffer_size_unchecked(ret, size, lastErr) == Ok(size)

\* get_raw_input_data_required_buffer_size: UINT::MAX is the failure sentinel
get_raw_input_data_required_buffer_size(ret, size, lastErr) ==
  IF ret # U32_MAX THEN Ok(size) ELSE Err(lastErr)

\* get_raw_input_data: on success the view is the first `size` bytes
get_raw_input_data(ret, data, lastErr) ==
  IF ret # U32_MAX THEN Ok(data) ELSE Err(lastErr)

-----------------------------------------------------------------------------
(* winuser.rs, hidpi.rs: fetching a device's capabilities.                  *)
(* A preparsed-data blob is [dev, nb, nv]: the device it was fetched for    *)
(* and the button / value capability counts its descriptor holds.           *)

Blobs == [dev : Handles, nb : 0..MaxCaps, nv : 0..MaxCaps]
BlobSize == 8       \* the byte size GetRawInputDeviceInfoW reports for a blob

\* a faulty GlobalBuffer::new that takes the allocator's pointer untested
GlobalBuffer_new_unchecked(byte_count, allocOk) == Some(byte_count)

\* GlobalBuffer::new: None when the allocator returned null
GlobalBuffer_new(byte_count, allocOk) ==
  IF allocOk THEN Some(byte_count) ELSE None

\* a faulty try_new that accepts a fill shorter than the buffer
RawInputDevicePreparsedData_try_new_trims(blob, get_required_ret, size, allocOk, bytes_written, lastErr) ==
  IF get_required_ret # 0
  THEN [res |-> Err(lastErr), trace |-> <<"GetRawInputDeviceInfoW:size">>]
  ELSE LET buf == GlobalBuffer_new(size, allocOk)
       IN  IF buf = None
           THEN [res |-> Err(NOT_ENOUGH_MEMORY),
                 trace |-> <<"GetRawInputDeviceInfoW:size", "alloc_zeroed">>]
           ELSE IF bytes_written = U32_MAX \/ bytes_written > buf[1]
           THEN [res |-> Err(lastErr),
                 trace |-> <<"GetRawInputDeviceInfoW:size", "alloc_zeroed",
                             "GetRawInputDeviceInfoW:fill", "dealloc">>]
           ELSE [res |-> Ok(blob),
                 trace |-> <<"GetRawInputDeviceInfoW:size", "alloc_zeroed",
                             "GetRawInputDeviceInfoW:fill">>]

\* RawInputDevicePreparsedData::try_new: [res, trace]
RawInputDevicePreparsedData_try_new(blob, get_required_ret, size, allocOk, bytes_written, lastErr) ==
  IF get_required_ret # 0
  THEN [res |-> Err(lastErr), trace |-> <<"GetRawInputDeviceInfoW:size">>]
  ELSE LET buf == GlobalBuffer_new(size, allocOk)
       IN  IF buf = None
           THEN [res |-> Err(NOT_ENOUGH_MEMORY),
                 trace |-> <<"GetRawInputDeviceInfoW:size", "alloc_zeroed">>]
           ELSE IF bytes_written # buf[1]
           THEN [res |-> Err(lastErr),
                 trace |-> <<"GetRawInputDeviceInfoW:size", "alloc_zeroed",
                             "GetRawInputDeviceInfoW:fill", "dealloc">>]
           ELSE [res |-> Ok(blob),
                 trace |-> <<"GetRawInputDeviceInfoW:size", "alloc_zeroed",
                             "GetRawInputDeviceInfoW:fill">>]

\* hidp_get_caps: Ok exactly when HidP_GetCaps returned SUCCESS
hidp_get_caps(preparsed_data, status) ==
  IF status = HidpStatus_SUCCESS
  THEN Ok([src |-> preparsed_data,
           number_input_button_caps |-> preparsed_data.nb,
           number_input_value_caps |-> preparsed_data.nv])
  ELSE Err(status)

\* the i-th capability descriptor HidP_Get*Caps writes for a blob
CapOf(preparsed_data, what, i) == [src |-> preparsed_data, what |-> what, idx |-> i]

\* hidp_get_button_caps: the first `len` elements of the buffer
hidp_get_button_caps(capacity, preparsed_data, status, len) ==
  IF status = HidpStatus_SUCCESS
  THEN Ok([i \in 1..len |-> CapOf(preparsed_data, "button", i)])
  ELSE Err(status)

\* hidp_get_value_caps: the first `len` elements of the buffer
hidp_get_value_caps(capacity, preparsed_data, status, len) ==
  IF status = HidpStatus_SUCCESS
  THEN Ok([i \in 1..len |-> CapOf(preparsed_data, "value", i)])
  ELSE Err(status)

\* a faulty HidInfo::try_new that builds the entry without the value
\* capabilities
HidInfo_try_new_no_values(preparsed_data, capsStatus, btnStatus, btnLen, valStatus, valLen) ==
  LET caps == hidp_get_caps(preparsed_data, capsStatus)
  IN  IF ~caps.ok THEN [res |-> Err(caps.e), trace |-> <<"HidP_GetCaps">>]
      ELSE
      LET b == hidp_get_button_caps(caps.v[1].number_input_button_caps,
                                    preparsed_data, btnStatus, btnLen)
      IN  IF ~b.ok
          THEN [res |-> Err(b.e), trace |-> <<"HidP_GetCaps", "HidP_GetButtonCaps">>]
          ELSE [res |-> Ok([preparsed_data |-> preparsed_data,
                            caps |-> caps.v[1],
                            input_button_caps |-> b.v[1],
                            input_value_caps |-> <<>>]),
                trace |-> <<"HidP_GetCaps", "HidP_GetButtonCaps">>]

\* HidInfo::try_new: [res, trace]; each `?` returns the first failure
HidInfo_try_new(preparsed_data, capsStatus, btnStatus, btnLen, valStatus, valLen) ==
  LET caps == hidp_get_caps(preparsed_data, capsStatus)
  IN  IF ~caps.ok THEN [res |-> Err(caps.e), trace |-> <<"HidP_GetCaps">>]
      ELSE
      LET b == hidp_get_button_caps(caps.v[1].number_input_button_caps,
                                    preparsed_data, btnStatus, btnLen)
      IN  IF ~b.ok
          THEN [res |-> Err(b.e), trace |-> <<"HidP_GetCaps", "HidP_GetButtonCaps">>]
          ELSE
          LET v == hidp_get_value_caps(caps.v[1].number_input_value_caps,
                                       preparsed_data, valStatus, valLen)
          IN  IF ~v.ok
              THEN [res |-> Err(v.e),
                    trace |-> <<"HidP_GetCaps", "HidP_GetButtonCaps",
                                "HidP_GetValueCaps">>]
              ELSE [res |-> Ok([preparsed_data |-> preparsed_data,
                                caps |-> caps.v[1],
                                input_button_caps |-> b.v[1],
                                input_value_caps |-> v.v[1]]),
                    trace |-> <<"HidP_GetCaps", "HidP_GetButtonCaps",
                                "HidP_GetValueCaps">>]

-----------------------------------------------------------------------------
(* bin/main.rs: the capability cache, a HashMap<HANDLE, HidInfo> kept as a  *)
(* set of [key, val] buckets.                                               *)

Keys(db) == {b.key : b \in db}

\* HashMap::get
db_get(db, h) ==
  IF \E b \in db : b.key = h
  THEN Some((CHOOSE b \in db : b.key = h).val)
  ELSE None

\* a faulty insert that adds a bucket without replacing the one of the key
db_insert_append(db, h, v) == db \cup {[key |-> h, val |-> v]}

\* a faulty insert that keeps the entry the key already has
db_insert_keep_old(db, h, v) ==
  IF h \in Keys(db) THEN db ELSE db \cup {[key |-> h, val |-> v]}

\* db.insert(handle, hid_caps): replaces the entry of the key
db_insert(db, h, v) ==
  {b \in db : b.key # h} \cup {[key |-> h, val |-> v]}

\* a faulty remove that empties the cache
db_remove_all(db, h) == {}

\* a faulty remove that leaves the entry in place
db_remove_noop(db, h) == db

\* db.remove(&handle)
db_remove(db, h) == {b \in db : b.key # h}

-----------------------------------------------------------------------------
(* bin/main.rs: parse_raw_input.  [panic, trace, decoded]                   *)

\* a faulty shared borrow whose guard outlives the closure
with_borrow_leaked(calls) == <<"borrow">> \o calls

\* CAP_DATABASE.with(|ref_cell| { let db = &*ref_cell.borrow(); .. }): the
\* guard is a temporary of the closure and is dropped when the closure ends
with_borrow(calls) == <<"borrow">> \o calls \o <<"drop_borrow">>

\* CAP_DATABASE.with(|ref_cell| { let db = &mut *ref_cell.borrow_mut(); .. })
with_borrow_mut(calls) == <<"borrow_mut">> \o calls \o <<"drop_borrow">>

\* a faulty key choice: the first device handle, whatever the report says
lookup_key_first(data) == CHOOSE h \in Handles : \A g \in Handles : h <= g

\* the key parse_raw_input looks up: data.handle()
lookup_key(data) == handle(data)

\* what a call of parse_raw_input that returns early leaves behind
quiet_return == [panic |-> FALSE, trace |-> <<>>, decoded |-> None]
unwrap_panic == [panic |-> TRUE, trace |-> <<>>, decoded |-> None]

\* parse_raw_input from `let report = data.hid_raw_data().unwrap()` on: the
\* cache lookup under the key, then the HidP calls with the entry found
decode_single_report(data, db) ==
  IF hid_raw_data(data) = None THEN unwrap_panic
  ELSE LET key == lookup_key(data)
           found == db_get(db, key)
       IN  IF found = None
           THEN [quiet_return EXCEPT !.trace = with_borrow(<<"db.get">>)]
           ELSE
           LET hid == found[1]
           IN  [panic |-> FALSE,
                trace |-> with_borrow(
                            <<"db.get", "HidP_MaxUsageListLength", "HidP_GetUsages">>
                            \o [i \in 1..Len(hid.input_value_caps)
                                  |-> "HidP_GetUsageValue"]),
                decoded |-> Some([handle |-> handle(data),
                                  key |-> key,
                                  preparsed_data |-> hid.preparsed_data,
                                  value_caps |-> hid.input_value_caps])]

\* a faulty parse_raw_input that lacks the multi-report early return
parse_raw_input_no_skip(data, db) ==
  LET hc == hid_count(data)
  IN  IF hc.panic \/ hc.opt = None THEN unwrap_panic
      ELSE decode_single_report(data, db)

parse_raw_input(data, db) ==
  LET hc == hid_count(data)
  IN  IF hc.panic \/ hc.opt = None THEN unwrap_panic
      ELSE IF hc.opt[1] > 1 THEN quiet_return
      ELSE decode_single_report(data, db)

-----------------------------------------------------------------------------
(* bin/main.rs: win_proc, one action per message kind.  Each action is one  *)
(* iteration of main's loop that got a non-quit message: translate,         *)
(* dispatch, and the whole handler.                                         *)

WM_CREATE == 1
WM_CLOSE == 16
WM_QUIT == 18
WM_INPUT_DEVICE_CHANGE == 254
WM_INPUT == 255
WM_OTHER == WM_INPUT + 1          \* stands for every message win_proc names no arm for

\* messages win_proc has no arm for, and the parameters they come with
OtherMessages == {15, WM_OTHER}
OtherParams == {<<0, 0>>, <<1, 2>>}

\* what RegisterClassExW / CreateWindowExW may return: 0 (failure) or a value
NativeAtoms == {0, 49152}
NativeHwnds == {0, 4096}

\* the value DefWindowProcW returns for a call, kept symbolic
DefWindowProcW(h, msg, w_param, l_param) ==
  <<"DefWindowProcW", h, msg, w_param, l_param>>
Handled(n) == <<"return", n>>

\* MSG::is_quit_message
is_quit_message(msg) == msg = WM_QUIT

\* a faulty loop body that dispatches a message before translating it
loop_iteration_dispatch_first(r) ==
  IF ~r.ok THEN [brk |-> FALSE, calls |-> <<"eprintln">>]
  ELSE IF is_quit_message(r.v[1]) THEN [brk |-> TRUE, calls |-> <<>>]
  ELSE [brk |-> FALSE, calls |-> <<"dispatch_message", "translate_message">>]

\* a faulty loop body that gives up when getting a message fails
loop_iteration_break_on_error(r) ==
  IF ~r.ok THEN [brk |-> TRUE, calls |-> <<"eprintln">>]
  ELSE IF is_quit_message(r.v[1]) THEN [brk |-> TRUE, calls |-> <<>>]
  ELSE [brk |-> FALSE, calls |-> <<"translate_message", "dispatch_message">>]

\* one iteration of main's loop on the result r of get_any_message():
\* whether it breaks, and the calls it makes
loop_iteration(r) ==
  IF ~r.ok THEN [brk |-> FALSE, calls |-> <<"eprintln">>]
  ELSE IF is_quit_message(r.v[1]) THEN [brk |-> TRUE, calls |-> <<>>]
  ELSE [brk |-> FALSE, calls |-> <<"translate_message", "dispatch_message">>]

NoLast ==
  [kind |-> "none", msg |-> 0, w_param |-> 0, l_param |-> 0,
   ret |-> Handled(0), def |-> FALSE, trace |-> <<>>, attach |-> "na",
   fetched |-> None, replaced |-> FALSE, decoded |-> None, data |-> None,
   translated |-> FALSE, dispatched |-> FALSE, calls |-> <<>>,
   native |-> None]

\* the loop iteration that got the non-quit message msg (GetMessageW
\* returned a positive value) and passed it on to win_proc
Dispatched(msg, w, l) ==
  LET it == loop_iteration(get_any_message(1, msg, LastError))
  IN  [NoLast EXCEPT !.kind = "msg", !.msg = msg, !.w_param = w, !.l_param = l,
                     !.calls = it.calls,
                     !.translated = \E i \in DOMAIN it.calls :
                                       it.calls[i] = "translate_message",
                     !.dispatched = \E i \in DOMAIN it.calls :
                                       it.calls[i] = "dispatch_message"]

\* a faulty fall-through that reports the message as handled
WithDef_handled(r) == [r EXCEPT !.ret = Handled(0)]

WithDef(r) ==
  [r EXCEPT !.ret = DefWindowProcW(hwnd, r.msg, r.w_param, r.l_param),
            !.def = TRUE, !.trace = r.trace \o <<"DefWindowProcW">>]

InLoop == pc = "loop"

mainFrame == UNCHANGED <<atom, hwnd, unregCalls, destroyCalls>>

\* WinMessage::CREATE
WinProcCreate ==
  /\ InLoop
  /\ \E boolRet \in {0, 1} :
       LET r == register_raw_input_devices(boolRet, LastError)
           l == [Dispatched(WM_CREATE, 0, 0)
                   EXCEPT !.trace = <<"RegisterRawInputDevices">>,
                          !.native = Some(boolRet)]
       IN  last' = [l EXCEPT !.ret = IF r.ok THEN Handled(0) ELSE Handled(-1)]
  /\ UNCHANGED <<pc, quitPosted, CAP_DATABASE, evt>>
  /\ mainFrame
  /\ UNCHANGED ownVars
  /\ UNCHANGED fnVars

\* WinMessage::CLOSE
WinProcClose ==
  /\ InLoop
  /\ quitPosted' = TRUE
  /\ last' = [Dispatched(WM_CLOSE, 0, 0) EXCEPT !.trace = <<"PostQuitMessage">>]
  /\ UNCHANGED <<pc, CAP_DATABASE, evt>>
  /\ mainFrame
  /\ UNCHANGED ownVars
  /\ UNCHANGED fnVars

\* how the device-change outcome of a handle follows the one before it
NextEvt(old, now) ==
  CASE now = "ok" /\ old = "detach_ok" -> "reok"
    [] now = "detach" /\ old \in {"ok", "reok"} -> "detach_ok"
    [] OTHER -> now

\* What the native calls of one arrival return.  A call that is not reached
\* has no result, so its fields keep the success values.
AllGood(blob) ==
  [blob |-> blob, get_required_ret |-> 0, allocOk |-> TRUE,
   bytes_written |-> BlobSize, capsStatus |-> HidpStatus_SUCCESS,
   btnStatus |-> HidpStatus_SUCCESS, btnLen |-> blob.nb,
   valStatus |-> HidpStatus_SUCCESS, valLen |-> blob.nv]

ArrivalRuns(h) ==
  LET b == [dev |-> h, nb |-> MaxCaps, nv |-> MaxCaps]
  IN  {AllGood(x) : x \in {y \in Blobs : y.dev = h}}
      \cup {[AllGood(b) EXCEPT !.get_required_ret = U32_MAX],
            [AllGood(b) EXCEPT !.allocOk = FALSE],
            [AllGood(b) EXCEPT !.bytes_written = U32_MAX],
            [AllGood(b) EXCEPT !.bytes_written = BlobSize - 1]}
      \cup {[AllGood(b) EXCEPT !.capsStatus = st] : st \in HidpFailures}
      \cup {[AllGood(b) EXCEPT !.btnStatus = st] : st \in HidpFailures}
      \cup {[AllGood(b) EXCEPT !.valStatus = st] : st \in HidpFailures}

\* the w_param values an INPUT_DEVICE_CHANGE message is tried with: arrival,
\* removal, and one that is neither
DeviceChangeParams == {1, 2, 3}

\* a faulty match that takes every w_param but 2 for an arrival
added_unless_removal(w_param) == w_param # 2

\* `let added = match w_param { 1 => true, 2 => false, other => false }`
added(w_param) ==
  CASE w_param = 1 -> TRUE
    [] w_param = 2 -> FALSE
    [] OTHER -> FALSE

\* WinMessage::INPUT_DEVICE_CHANGE, `if added`
WinProcDeviceAdded ==
  /\ InLoop
  /\ \E h \in Handles, w \in DeviceChangeParams : \E n \in ArrivalRuns(h) :
       /\ added(w)
       /\ LET m == [Dispatched(WM_INPUT_DEVICE_CHANGE, w, h)
                      EXCEPT !.trace = <<"get_raw_input_device_name",
                                         "get_raw_input_device_info">>]
              pd == RawInputDevicePreparsedData_try_new(
                      n.blob, n.get_required_ret, BlobSize, n.allocOk,
                      n.bytes_written, LastError)
          IN  IF ~pd.res.ok
              THEN /\ last' = WithDef([m EXCEPT !.trace = m.trace \o pd.trace,
                                                !.attach = "fail_preparsed"])
                   /\ evt' = [evt EXCEPT ![h] = NextEvt(evt[h], "fail")]
                   /\ UNCHANGED CAP_DATABASE
              ELSE
              LET info == HidInfo_try_new(pd.res.v[1], n.capsStatus, n.btnStatus,
                                          n.btnLen, n.valStatus, n.valLen)
              IN  IF info.res.ok
                  THEN /\ CAP_DATABASE' = db_insert(CAP_DATABASE, h, info.res.v[1])
                       /\ last' = [m EXCEPT !.trace = m.trace \o pd.trace
                                               \o info.trace
                                               \o with_borrow_mut(<<"db.insert">>),
                                            !.attach = "ok",
                                            !.fetched = Some(info.res.v[1]),
                                            !.replaced = (h \in Keys(CAP_DATABASE))]
                       /\ evt' = [evt EXCEPT ![h] = NextEvt(evt[h], "ok")]
                  ELSE /\ last' = [m EXCEPT !.trace = m.trace \o pd.trace
                                               \o info.trace \o <<"dealloc">>,
                                            !.attach = "fail_caps"]
                       /\ evt' = [evt EXCEPT ![h] = NextEvt(evt[h], "fail")]
                       /\ UNCHANGED CAP_DATABASE
  /\ UNCHANGED <<pc, quitPosted>>
  /\ mainFrame
  /\ UNCHANGED ownVars
  /\ UNCHANGED fnVars

\* WinMessage::INPUT_DEVICE_CHANGE, the else branch of `if added`
WinProcDeviceRemoved ==
  /\ InLoop
  /\ \E h \in Handles, w \in DeviceChangeParams :
       /\ ~added(w)
       /\ CAP_DATABASE' = db_remove(CAP_DATABASE, h)
       /\ last' = [Dispatched(WM_INPUT_DEVICE_CHANGE, w, h)
                     EXCEPT !.trace = with_borrow_mut(<<"db.remove">>)]
       /\ evt' = [evt EXCEPT ![h] = NextEvt(evt[h], IF w = 2 THEN "detach"
                                                             ELSE "illegal")]
  /\ UNCHANGED <<pc, quitPosted>>
  /\ mainFrame
  /\ UNCHANGED ownVars
  /\ UNCHANGED fnVars

\* What GetRawInputData returns for one INPUT message: a payload, or a
\* failure of the size query or of the fill call (the payload is then unread)
InputRuns ==
  {[data |-> d, fails |-> "none"] : d \in RawInputs}
  \cup {[data |-> [len |-> 16, ty |-> 0, device |-> 0, count |-> 0], fails |-> f] :
          f \in {"size", "fill"}}

\* the INPUT arm up to parse_raw_input: the size query, the buffer, the fill
\* call; [res, trace], either failure being returned as it is
input_retrieval(sizeRet, size, fillRet, data, lastErr) ==
  LET required == get_raw_input_data_required_buffer_size(sizeRet, size, lastErr)
  IN  IF ~required.ok
      THEN [res |-> Err(required.e), trace |-> <<"GetRawInputData:size">>]
      ELSE [res |-> get_raw_input_data(fillRet, data, lastErr),
            trace |-> <<"GetRawInputData:size", "vec![0; required_size]",
                        "GetRawInputData:fill">>]

\* WinMessage::INPUT
WinProcInput ==
  /\ InLoop
  /\ \E run \in InputRuns :
       LET data == run.data
           m == Dispatched(WM_INPUT, 0, 1)
           got == input_retrieval(
                    IF run.fails = "size" THEN U32_MAX ELSE 0, data.len,
                    IF run.fails = "fill" THEN U32_MAX ELSE data.len, data,
                    LastError)
       IN  IF ~got.res.ok
           THEN /\ last' = WithDef([m EXCEPT !.trace = got.trace])
                /\ UNCHANGED pc
           ELSE
           LET p == parse_raw_input(got.res.v[1], CAP_DATABASE)
               l == [m EXCEPT !.trace = got.trace \o p.trace,
                              !.decoded = p.decoded,
                              !.data = Some(got.res.v[1])]
           IN  IF p.panic
               THEN /\ last' = [l EXCEPT !.kind = "panic"]
                    /\ pc' = "panicked"
               ELSE /\ last' = WithDef(l)
                    /\ UNCHANGED pc
  /\ UNCHANGED <<quitPosted, CAP_DATABASE, evt>>
  /\ mainFrame
  /\ UNCHANGED ownVars
  /\ UNCHANGED fnVars

\* any other message
WinProcOther ==
  /\ InLoop
  /\ \E msg \in OtherMessages, prm \in OtherParams :
       last' = WithDef(Dispatched(msg, prm[1], prm[2]))
  /\ UNCHANGED <<pc, quitPosted, CAP_DATABASE, evt>>
  /\ mainFrame
  /\ UNCHANGED ownVars
  /\ UNCHANGED fnVars

-----------------------------------------------------------------------------
(* bin/main.rs: main *)

\* win_class.register().unwrap()
MainRegister ==
  /\ pc = "start"
  /\ \E instRet \in {0, 1}, cursorRet \in {0, 1}, atomRet \in NativeAtoms,
        lastErr \in ErrorCodes :
       LET r == register(instRet, cursorRet, atomRet, lastErr)
       IN  IF r.ok THEN /\ atom' = r.v[1]
                        /\ pc' = "registered"
           ELSE /\ pc' = "panicked"
                /\ UNCHANGED atom
  /\ UNCHANGED <<hwnd, unregCalls, destroyCalls, quitPosted, CAP_DATABASE, evt, last>>
  /\ UNCHANGED ownVars
  /\ UNCHANGED fnVars

\* create_window(..., atom, ...).unwrap(); show_window(hwnd, true)
MainCreateWindow ==
  /\ pc = "registered"
  /\ \E instRet \in {0, 1}, hwndRet \in NativeHwnds, lastErr \in ErrorCodes :
       LET r == create_window(instRet, hwndRet, lastErr)
       IN  IF r.ok THEN /\ hwnd' = r.v[1]
                        /\ pc' = "loop"
           ELSE /\ pc' = "panicked"
                /\ UNCHANGED hwnd
  /\ UNCHANGED <<atom, unregCalls, destroyCalls, quitPosted, CAP_DATABASE, evt, last>>
  /\ UNCHANGED ownVars
  /\ UNCHANGED fnVars

\* get_any_message() returned Err: the error is printed, the loop goes on
LoopError ==
  /\ InLoop
  /\ LET r == get_any_message(-1, WM_OTHER, LastError)
         it == loop_iteration(r)
     IN  /\ ~r.ok
         /\ last' = [NoLast EXCEPT !.kind = "err", !.msg = r.e, !.calls = it.calls]
         /\ pc' = IF it.brk THEN "exited" ELSE pc
  /\ UNCHANGED <<quitPosted, CAP_DATABASE, evt>>
  /\ mainFrame
  /\ UNCHANGED ownVars
  /\ UNCHANGED fnVars

\* get_any_message() returned the quit message: break
LoopQuit ==
  /\ InLoop
  /\ quitPosted
  /\ LET r == get_any_message(0, WM_QUIT, 0)
         it == loop_iteration(r)
     IN  /\ r.ok
         /\ it.brk
         /\ last' = [NoLast EXCEPT !.kind = "quit", !.msg = r.v[1], !.calls = it.calls]
  /\ pc' = "exited"
  /\ UNCHANGED <<quitPosted, CAP_DATABASE, evt>>
  /\ mainFrame
  /\ UNCHANGED ownVars
  /\ UNCHANGED fnVars

\* destroy_window(hwnd).unwrap()
MainDestroyWindow ==
  /\ pc = "exited"
  /\ destroyCalls' = destroyCalls + 1
  /\ \E boolRet \in {0, 1}, lastErr \in ErrorCodes :
       pc' = IF destroy_window(boolRet, lastErr).ok THEN "destroyed" ELSE "panicked"
  /\ UNCHANGED <<atom, hwnd, unregCalls, quitPosted, CAP_DATABASE, evt, last>>
  /\ UNCHANGED ownVars
  /\ UNCHANGED fnVars

\* atom.unregister().unwrap()
MainUnregister ==
  /\ pc = "destroyed"
  /\ \E instRet \in {0, 1}, boolRet \in {0, 1}, lastErr \in ErrorCodes :
       /\ unregCalls' = IF unregister_calls_native(instRet)
                        THEN unregCalls + 1 ELSE unregCalls
       /\ pc' = IF unregister(instRet, boolRet, lastErr).ok THEN "done"
                ELSE "panicked"
  /\ UNCHANGED <<atom, hwnd, destroyCalls, quitPosted, CAP_DATABASE, evt, last>>
  /\ UNCHANGED ownVars
  /\ UNCHANGED fnVars

InitMain ==
  /\ pc = "start"
  /\ atom = 0
  /\ hwnd = 0
  /\ unregCalls = 0
  /\ destroyCalls = 0
  /\ quitPosted = FALSE
  /\ CAP_DATABASE = {}
  /\ evt = [h \in Handles |-> "none"]
  /\ last = NoLast


-----------------------------------------------------------------------------
(* The owned handle wrappers: program.rs, shader.rs, texture.rs, winbase.rs, *)
(* win_types.rs, winuser.rs.  A wrapper value is [kind, raw, st, moved,      *)
(* origin]; `released` counts the native release calls per <<kind, raw>>.    *)

GlKinds == {"Program", "Shader", "Texture"}
DropKinds == GlKinds \cup {"LocalBox", "GlobalBuffer"}
HandleKinds == {"WindowClassAtom", "HWND"}
Kinds == DropKinds \cup HandleKinds

\* the native release function of each kind
ReleaseFn(kind) ==
  CASE kind = "Program" -> "glDeleteProgram"
    [] kind = "Shader" -> "glDeleteShader"
    [] kind = "Texture" -> "glDeleteTextures"
    [] kind = "LocalBox" -> "LocalFree"
    [] kind = "GlobalBuffer" -> "dealloc"
    [] kind = "WindowClassAtom" -> "UnregisterClassW"
    [] kind = "HWND" -> "DestroyWindow"

\* #[derive(Clone, Copy)]: the kinds a plain assignment duplicates
IsCopy(kind) == kind \in HandleKinds

\* the kinds that implement Drop
HasDrop(kind) == kind \in DropKinds

\* a faulty Drop: Program has none, its GL object leaks
DropReleases_no_program(kind, raw) ==
  CASE kind = "Program" -> FALSE
    [] kind = "Texture" -> raw # 0
    [] kind \in {"Shader", "LocalBox", "GlobalBuffer"} -> TRUE
    [] OTHER -> FALSE

\* Drop::drop: whether dropping a value of the kind calls its release function
DropReleases(kind, raw) ==
  CASE kind = "Program" -> TRUE              \* glDeleteProgram(self.0)
    [] kind = "Shader" -> TRUE               \* glDeleteShader(self.0)
    [] kind = "Texture" -> raw # 0           \* if self.0 != 0
    [] kind = "LocalBox" -> TRUE             \* LocalFree(handle)
    [] kind = "GlobalBuffer" -> TRUE         \* dealloc(slice_p, layout)
    [] OTHER -> FALSE                        \* no Drop impl

\* Program::new / Shader::new / Texture::new: the wrapper of whatever the
\* native call gave, 0 included
gl_new(nativeRet) == nativeRet

\* a faulty format_system_error that does not test the pointer for null
format_system_error_no_null_test(w_chars_excluding_null, local_alloc_ptr, lastErr) ==
  IF w_chars_excluding_null = 0
  THEN Err(lastErr)
  ELSE Ok([ptr |-> local_alloc_ptr, len |-> w_chars_excluding_null])

\* a faulty format_system_error that counts the terminating null in
format_system_error_counts_null(w_chars_excluding_null, local_alloc_ptr, lastErr) ==
  IF w_chars_excluding_null = 0 \/ local_alloc_ptr = 0
  THEN Err(lastErr)
  ELSE Ok([ptr |-> local_alloc_ptr, len |-> w_chars_excluding_null + 1])

\* ErrorCode::format_system_error: Err when FormatMessageW wrote no
\* characters or left the pointer null, else a LocalBox of that length
format_system_error(w_chars_excluding_null, local_alloc_ptr, lastErr) ==
  IF w_chars_excluding_null = 0 \/ local_alloc_ptr = 0
  THEN Err(lastErr)
  ELSE Ok([ptr |-> local_alloc_ptr, len |-> w_chars_excluding_null])

RelCount(kind, raw) ==
  IF <<kind, raw>> \in DOMAIN released THEN released[<<kind, raw>>] ELSE 0

Release(kind, raw) ==
  [k \in DOMAIN released \cup {<<kind, raw>>} |-> RelCount(k[1], k[2]) + (IF k = <<kind, raw>> THEN 1 ELSE 0)]

NewObj(kind, raw, origin) ==
  [kind |-> kind, raw |-> raw, st |-> "live", moved |-> FALSE, origin |-> origin]

FreshRaw == Len(objs) + 1
Running == lastCtor.res # "panic"
CanCreate == Running /\ Len(objs) < MaxObjs

\* the record of one constructor call: what the native call returned, what
\* the wrapper returned (res, and e for an Err), the last-error value then
Ctor(name, nativeRet, res, e, lastErr) ==
  [ctor |-> name, nativeRet |-> nativeRet, res |-> res, e |-> e,
   lastErr |-> IF res = "err" THEN lastErr ELSE 0]
NoCtor == Ctor("none", 0, "none", 0, 0)

\* Program::new(), Shader::new(ty), Texture::new()
OwnNewGl ==
  /\ CanCreate
  /\ \E kind \in GlKinds, nativeRet \in {0, FreshRaw} :
       /\ objs' = Append(objs, NewObj(kind, gl_new(nativeRet), "new"))
       /\ lastCtor' = Ctor(kind, nativeRet, "value", 0, 0)
  /\ UNCHANGED released
  /\ UNCHANGED mainVars
  /\ UNCHANGED fnVars

\* ErrorCode::format_system_error(): the only maker of a LocalBox.
\* FormatMessageW reports a character count and leaves a pointer, either of
\* which may be 0; a pointer that no LocalBox takes is FreshRaw + MaxObjs,
\* apart from every pointer a LocalBox holds.
OwnFormatSystemError ==
  /\ CanCreate
  /\ \E w_chars \in {0, MaxChars}, allocated \in BOOLEAN :
       LET lastErr == LastError
           taken == w_chars # 0 /\ allocated
           ptr == IF ~allocated THEN 0
                  ELSE IF taken THEN FreshRaw ELSE FreshRaw + MaxObjs
           r == format_system_error(w_chars, ptr, lastErr)
           native == [w_chars |-> w_chars, len |-> IF r.ok THEN r.v[1].len ELSE 0]
       IN  IF r.ok
           THEN /\ objs' = Append(objs, NewObj("LocalBox", r.v[1].ptr, "new"))
                /\ lastCtor' = Ctor("LocalBox", ptr, "ok", 0, lastErr) @@ native
           ELSE /\ lastCtor' = Ctor("LocalBox", ptr, "err", r.e, lastErr) @@ native
                /\ UNCHANGED objs
  /\ UNCHANGED released
  /\ UNCHANGED mainVars
  /\ UNCHANGED fnVars

\* GlobalBuffer::new(byte_count)
OwnNewGlobalBuffer ==
  /\ CanCreate
  /\ \E allocOk \in BOOLEAN :
       LET r == GlobalBuffer_new(FreshRaw, allocOk)
       IN  IF r # None
           THEN /\ objs' = Append(objs, NewObj("GlobalBuffer", r[1], "new"))
                /\ lastCtor' = Ctor("GlobalBuffer", FreshRaw, "ok", 0, 0)
           ELSE /\ lastCtor' = Ctor("GlobalBuffer", 0, "none", 0, 0)
                /\ UNCHANGED objs
  /\ UNCHANGED released
  /\ UNCHANGED mainVars
  /\ UNCHANGED fnVars

\* WindowClass::register()
OwnRegister ==
  /\ CanCreate
  /\ \E instRet \in {0, 1}, atomRet \in {0, FreshRaw}, lastErr \in ErrorCodes :
       LET r == register(instRet, 1, atomRet, lastErr)
       IN  IF r.ok
           THEN /\ objs' = Append(objs, NewObj("WindowClassAtom", r.v[1], "new"))
                /\ lastCtor' = Ctor("WindowClassAtom", atomRet, "ok", 0, lastErr)
           ELSE /\ lastCtor' = Ctor("WindowClassAtom",
                                    IF instRet = 0 THEN 0 ELSE atomRet,
                                    "err", r.e, lastErr)
                /\ UNCHANGED objs
  /\ UNCHANGED released
  /\ UNCHANGED mainVars
  /\ UNCHANGED fnVars

\* create_window(...)
OwnCreateWindow ==
  /\ CanCreate
  /\ \E instRet \in {0, 1}, hwndRet \in {0, FreshRaw} :
       LET lastErr == LastError
           r == create_window(instRet, hwndRet, lastErr)
       IN  IF r.ok
           THEN /\ objs' = Append(objs, NewObj("HWND", r.v[1], "new"))
                /\ lastCtor' = Ctor("HWND", hwndRet, "ok", 0, lastErr)
           ELSE /\ lastCtor' = Ctor("HWND", IF instRet = 0 THEN 0 ELSE hwndRet,
                                    "err", r.e, lastErr)
                /\ UNCHANGED objs
  /\ UNCHANGED released
  /\ UNCHANGED mainVars
  /\ UNCHANGED fnVars

\* a move of a live value (let b = a; passing by value; returning): the
\* value is the same value in a new place, and nothing is dropped.  `moved`
\* records that at least one move happened; any number may follow.
OwnMove ==
  /\ Running
  /\ \E i \in DOMAIN objs :
       /\ objs[i].st = "live"
       /\ objs' = [objs EXCEPT ![i].moved = TRUE]
  /\ lastCtor' = NoCtor
  /\ UNCHANGED released
  /\ UNCHANGED mainVars
  /\ UNCHANGED fnVars

\* a plain copy of a Copy value: a second value holding the same raw handle
OwnCopy ==
  /\ CanCreate
  /\ \E i \in DOMAIN objs :
       /\ objs[i].st = "live"
       /\ IsCopy(objs[i].kind)
       /\ objs' = Append(objs, NewObj(objs[i].kind, objs[i].raw, "copy"))
  /\ lastCtor' = NoCtor
  /\ UNCHANGED released
  /\ UNCHANGED mainVars
  /\ UNCHANGED fnVars

\* GlobalBuffer::clone(): Self::new(self.len()).unwrap(), then a byte copy
OwnClone ==
  /\ CanCreate
  /\ \E i \in DOMAIN objs, allocOk \in BOOLEAN :
       /\ objs[i].st = "live"
       /\ objs[i].kind = "GlobalBuffer"
       /\ LET r == GlobalBuffer_new(FreshRaw, allocOk)
          IN  IF r # None
              THEN /\ objs' = Append(objs, NewObj("GlobalBuffer", r[1], "clone"))
                   /\ lastCtor' = Ctor("GlobalBuffer::clone", FreshRaw, "ok", 0, 0)
              ELSE /\ lastCtor' = Ctor("GlobalBuffer::clone", 0, "panic", 0, 0)
                   /\ UNCHANGED objs
  /\ UNCHANGED released
  /\ UNCHANGED mainVars
  /\ UNCHANGED fnVars

\* a live value goes out of scope
OwnDrop ==
  /\ Running
  /\ \E i \in DOMAIN objs :
       /\ objs[i].st = "live"
       /\ objs' = [objs EXCEPT ![i].st = "dropped"]
       /\ released' = IF DropReleases(objs[i].kind, objs[i].raw)
                      THEN Release(objs[i].kind, objs[i].raw)
                      ELSE released
  /\ lastCtor' = NoCtor
  /\ UNCHANGED mainVars
  /\ UNCHANGED fnVars

\* atom.unregister(): takes &self, the value stays usable
OwnUnregister ==
  /\ Running
  /\ \E i \in DOMAIN objs, instRet \in {0, 1} :
       /\ objs[i].st = "live"
       /\ objs[i].kind = "WindowClassAtom"
       /\ RelCount(objs[i].kind, objs[i].raw) < MaxCalls
       /\ released' = IF unregister_calls_native(instRet)
                      THEN Release(objs[i].kind, objs[i].raw)
                      ELSE released
  /\ lastCtor' = NoCtor
  /\ UNCHANGED objs
  /\ UNCHANGED mainVars
  /\ UNCHANGED fnVars

\* destroy_window(hwnd): takes the Copy handle by value
OwnDestroyWindow ==
  /\ Running
  /\ \E i \in DOMAIN objs :
       /\ objs[i].st = "live"
       /\ objs[i].kind = "HWND"
       /\ RelCount(objs[i].kind, objs[i].raw) < MaxCalls
       /\ released' = Release(objs[i].kind, objs[i].raw)
  /\ lastCtor' = NoCtor
  /\ UNCHANGED objs
  /\ UNCHANGED mainVars
  /\ UNCHANGED fnVars

InitOwn ==
  /\ objs = <<>>
  /\ released = <<>>
  /\ lastCtor = NoCtor

NextOwn ==
  \/ OwnNewGl
  \/ OwnFormatSystemError
  \/ OwnNewGlobalBuffer
  \/ OwnRegister
  \/ OwnCreateWindow
  \/ OwnMove
  \/ OwnCopy
  \/ OwnClone
  \/ OwnDrop
  \/ OwnUnregister
  \/ OwnDestroyWindow

-----------------------------------------------------------------------------
(* SpecFn: single calls of the library's functions.  `call` holds the       *)
(* function called, what its native calls returned, and its result.         *)

NoCall == [fn |-> "none", args |-> <<>>, out |-> <<>>]
Called(fn, args, out) == [fn |-> fn, args |-> args, out |-> out]
\* a behaviour of SpecFn is one call; a call reads and writes nothing of the
\* demo program's or the wrappers' state
NotCalled == call = NoCall
fnFrame == UNCHANGED <<mainVars, ownVars>>

\* what GetRawInputDeviceInfoW / GetRawInputData may return as a count
NativeCounts == {0, BlobSize - 1, BlobSize, BlobSize + 1, U32_MAX}

\* get_raw_input_device_name: [res, trace]; the name is kept as its length,
\* char_count_out is what the fill call left in char_count
get_raw_input_device_name(get_required_ret, char_count, bytes_written, char_count_out, lastErr) ==
  IF get_required_ret # 0
  THEN [res |-> Err(lastErr), trace |-> <<"GetRawInputDeviceInfoW:size">>]
  ELSE IF bytes_written = U32_MAX
  THEN [res |-> Err(lastErr),
        trace |-> <<"GetRawInputDeviceInfoW:size", "Vec::with_capacity",
                    "GetRawInputDeviceInfoW:fill">>]
  ELSE [res |-> Ok(IF char_count_out >= 1 THEN char_count_out - 1 ELSE 0),
        trace |-> <<"GetRawInputDeviceInfoW:size", "Vec::with_capacity",
                    "GetRawInputDeviceInfoW:fill", "set_len">>]

\* RawInputDevicePreparsedData::try_new(device)
FnTryNew ==
  /\ NotCalled
  /\ \E blob \in Blobs, get_required_ret \in {0, U32_MAX}, allocOk \in BOOLEAN,
        size \in {0, BlobSize}, bytes_written \in NativeCounts,
        lastErr \in ErrorCodes :
       LET args == [blob |-> blob, get_required_ret |-> get_required_ret,
                    size |-> size, allocOk |-> allocOk,
                    bytes_written |-> bytes_written, lastErr |-> lastErr]
       IN  call' = Called("RawInputDevicePreparsedData::try_new", args,
                          RawInputDevicePreparsedData_try_new(
                            blob, get_required_ret, size, allocOk,
                            bytes_written, lastErr))
  /\ fnFrame

\* get_raw_input_device_name(device)
FnDeviceName ==
  /\ NotCalled
  /\ \E get_required_ret \in {0, U32_MAX}, bytes_written \in NativeCounts,
        char_count_out \in {0, BlobSize}, lastErr \in ErrorCodes :
       LET args == [get_required_ret |-> get_required_ret, size |-> BlobSize,
                    bytes_written |-> bytes_written,
                    char_count_out |-> char_count_out, lastErr |-> lastErr]
       IN  call' = Called("get_raw_input_device_name", args,
                          get_raw_input_device_name(
                            get_required_ret, BlobSize, bytes_written,
                            char_count_out, lastErr))
  /\ fnFrame

\* win_proc's INPUT arm: the two-call retrieval of the payload
FnInputRetrieval ==
  /\ NotCalled
  /\ \E sizeRet \in {0, U32_MAX}, fillRet \in NativeCounts, data \in RawInputs,
        lastErr \in ErrorCodes :
       LET args == [get_required_ret |-> sizeRet, size |-> data.len,
                    bytes_written |-> fillRet, lastErr |-> lastErr]
       IN  call' = Called("input_retrieval", args,
                          input_retrieval(sizeRet, data.len, fillRet, data, lastErr))
  /\ fnFrame

\* hidp_get_buttons: the first `usage_length` usages of the buffer, as the
\* native call left that count
hidp_get_buttons(capacity, status, usage_length) ==
  IF status = HidpStatus_SUCCESS
  THEN Ok([i \in 1..usage_length |-> [usage |-> i]])
  ELSE Err(status)

\* a faulty status test that takes every non-negative status for success
hidp_get_usage_value_nt_success(status, usage_value) ==
  IF status >= 0 THEN Ok(usage_value) ELSE Err(status)

\* hidp_get_usage_value: the value the native call wrote
hidp_get_usage_value(status, usage_value) ==
  IF status = HidpStatus_SUCCESS THEN Ok(usage_value) ELSE Err(status)

\* Shader::get_info_log / Program::get_info_log: a buffer of the required
\* capacity, the first `length` bytes of it taken as the text; bytes that
\* are not UTF-8 go through the lossy conversion
get_info_log(required_capacity, length, utf8) ==
  [capacity |-> required_capacity, taken |-> length,
   text |-> IF utf8 THEN "from_utf8" ELSE "from_utf8_lossy"]

\* what a fill call may report for a buffer of `capacity` elements: every
\* count up to the capacity (a larger count makes the `&buf[..len]` slice
\* panic and is not drawn)
FillCounts(capacity) == 0..capacity

\* hidp_get_button_caps / hidp_get_value_caps
FnHidpGetCapsArray ==
  /\ NotCalled
  /\ \E blob \in Blobs, which \in {"hidp_get_button_caps", "hidp_get_value_caps"},
        capacity \in 0..MaxCaps, status \in NativeStatuses :
     \E count \in FillCounts(capacity) :
       LET args == [blob |-> blob, capacity |-> capacity, status |-> status,
                    count |-> count]
       IN  call' = Called(which, args,
                          IF which = "hidp_get_button_caps"
                          THEN hidp_get_button_caps(capacity, blob, status, count)
                          ELSE hidp_get_value_caps(capacity, blob, status, count))
  /\ fnFrame

\* hidp_get_buttons
FnHidpGetButtons ==
  /\ NotCalled
  /\ \E capacity \in 0..MaxCaps, status \in NativeStatuses :
     \E count \in FillCounts(capacity) :
       call' = Called("hidp_get_buttons",
                      [capacity |-> capacity, status |-> status, count |-> count],
                      hidp_get_buttons(capacity, status, count))
  /\ fnFrame

\* get_raw_input_data(raw_input, buf): GetRawInputData copies the payload d
\* into a buffer of d.len + pad bytes and returns the byte count copied
\* (or the sentinel); `size`, passed in as the buffer length, is left as it
\* was or set to the count copied
FnGetRawInputData ==
  /\ NotCalled
  /\ \E d \in RawInputs, pad \in {0, DWORD_SIZE}, fails \in BOOLEAN,
        size_updated \in BOOLEAN, lastErr \in ErrorCodes :
       LET capacity == d.len + pad
           ret == IF fails THEN U32_MAX ELSE d.len
           size_out == IF size_updated /\ ~fails THEN d.len ELSE capacity
           args == [capacity |-> capacity, ret |-> ret, count |-> d.len,
                    size_out |-> size_out, lastErr |-> lastErr]
       IN  call' = Called("get_raw_input_data", args,
                          get_raw_input_data(ret, [d EXCEPT !.len = size_out],
                                             lastErr))
  /\ fnFrame

\* Shader::get_info_log / Program::get_info_log
FnGetInfoLog ==
  /\ NotCalled
  /\ \E capacity \in 0..MaxCaps + 1, utf8 \in BOOLEAN :
     \E count \in FillCounts(capacity) :
       call' = Called("get_info_log",
                      [capacity |-> capacity, count |-> count, utf8 |-> utf8],
                      get_info_log(capacity, count, utf8))
  /\ fnFrame

\* hidp_get_scaled_usage_value: the value the native call wrote
hidp_get_scaled_usage_value(status, usage_value) ==
  IF status = HidpStatus_SUCCESS THEN Ok(usage_value) ELSE Err(status)

\* hidp_get_usage_value_array: the caller's buffer is filled in place
hidp_get_usage_value_array(status) ==
  IF status = HidpStatus_SUCCESS THEN Ok("()") ELSE Err(status)

\* hidp_get_caps
FnHidpGetCaps ==
  /\ NotCalled
  /\ \E blob \in Blobs, status \in NativeStatuses :
       call' = Called("hidp_get_caps", [blob |-> blob, status |-> status],
                      hidp_get_caps(blob, status))
  /\ fnFrame

\* hidp_get_usage_value / hidp_get_scaled_usage_value / hidp_get_usage_value_array
FnHidpGetValue ==
  /\ NotCalled
  /\ \E which \in {"hidp_get_usage_value", "hidp_get_scaled_usage_value",
                   "hidp_get_usage_value_array"},
        status \in NativeStatuses, usage_value \in {0, 1} :
       call' = Called(which, [status |-> status, usage_value |-> usage_value],
                      CASE which = "hidp_get_usage_value" ->
                             hidp_get_usage_value(status, usage_value)
                        [] which = "hidp_get_scaled_usage_value" ->
                             hidp_get_scaled_usage_value(status, usage_value)
                        [] OTHER -> hidp_get_usage_value_array(status))
  /\ fnFrame

\* UTF-16 units of a message: a letter, CR, LF, an unpaired surrogate
Units == {"A", "CR", "LF", "D800"}
RECURSIVE TextsOfLen(_)
TextsOfLen(n) ==
  IF n = 0 THEN {<<>>}
  ELSE {Append(t, u) : t \in TextsOfLen(n - 1), u \in Units}
Texts == UNION {TextsOfLen(n) : n \in 0..MaxChars}

\* core::char::decode_utf16(..).map(|r| r.unwrap_or(REPLACEMENT_CHARACTER))
decode_utf16_lossy(u16_slice) ==
  [i \in DOMAIN u16_slice |-> IF u16_slice[i] = "D800" THEN "U+FFFD" ELSE u16_slice[i]]

\* while err_msg.ends_with(&['\r', '\n']) { err_msg.pop(); }
RECURSIVE pop_line_ends(_)
pop_line_ends(err_msg) ==
  IF err_msg # <<>> /\ err_msg[Len(err_msg)] \in {"CR", "LF"}
  THEN pop_line_ends(SubSeq(err_msg, 1, Len(err_msg) - 1))
  ELSE err_msg

\* <LocatedErrorCode as Debug>::fmt: [panic, text] with text the pieces of
\* "[{file}:{line}:{column}]({err_code}): {err_msg}".  `buffer` is what
\* FormatMessageW allocated; format_system_error's NonNull::new(p).unwrap()
\* panics on a null pointer.
LocatedErrorCode_fmt(location, err_code, w_chars_excluding_null, local_alloc_ptr, buffer, lastErr) ==
  LET system_error == format_system_error(w_chars_excluding_null,
                                          local_alloc_ptr, lastErr)
      u16_slice == IF system_error.ok
                   THEN SubSeq(buffer, 1, system_error.v[1].len)
                   ELSE <<>>
      err_msg == pop_line_ends(decode_utf16_lossy(u16_slice))
  IN  IF system_error.ok /\ system_error.v[1].ptr = 0
      THEN [panic |-> TRUE, text |-> <<>>]
      ELSE [panic |-> FALSE, text |-> <<location, err_code, err_msg>>]

\* format!("{e:?}") of a LocatedErrorCode
FnFmtLocatedErrorCode ==
  /\ NotCalled
  /\ \E err_code \in ErrorCodes \cup {INVALID_DATA}, buffer \in Texts,
        written \in BOOLEAN, local_alloc_ptr \in {0, 1}, lastErr \in ErrorCodes :
       LET w_chars == IF written THEN Len(buffer) ELSE 0
           args == [err_code |-> err_code, w_chars |-> w_chars,
                    local_alloc_ptr |-> local_alloc_ptr, buffer |-> buffer,
                    lastErr |-> lastErr]
       IN  call' = Called("LocatedErrorCode::fmt", args,
                          LocatedErrorCode_fmt("file:line:column", err_code,
                                               w_chars, local_alloc_ptr,
                                               buffer, lastErr))
  /\ fnFrame

\* what GetMessageW may return (-1 error, 0 for the quit message, another
\* value for any other message) and the messages it may fill in
GetMessageRets == {-1, 0, 1, 2}
GotMessages == {WM_QUIT, WM_CLOSE, WM_INPUT, WM_OTHER}

\* get_any_message() and the iteration of main's loop on its result
FnLoopIteration ==
  /\ NotCalled
  /\ \E ret \in GetMessageRets, msg \in GotMessages, lastErr \in ErrorCodes :
       LET r == get_any_message(ret, msg, lastErr)
       IN  call' = Called("main loop iteration",
                          [ret |-> ret, msg |-> msg, lastErr |-> lastErr],
                          [res |-> r, it |-> loop_iteration(r)])
  /\ fnFrame

\* byte buffers of several lengths below, at and above the header size and
\* the two RAWHID fields, with the header type and the fields they hold
BufferLens ==
  {0, RAWINPUTHEADER_SIZE - 1, RAWINPUTHEADER_SIZE, RAWINPUTHEADER_SIZE + 2,
   RAWINPUTHEADER_SIZE + DWORD_SIZE, RAWINPUTHEADER_SIZE + 2 * DWORD_SIZE - 1,
   RAWINPUTHEADER_SIZE + 2 * DWORD_SIZE, RAWINPUTHEADER_SIZE + 2 * DWORD_SIZE + 2}
Buffers ==
  [len : BufferLens, ty : {RawInputType_MOUSE, RawInputType_HID},
   device : Handles, size_hid : {2}, count : {0, 1}]

\* the accessors of RawInputData, each applied to the same buffer
FnAccessors ==
  /\ NotCalled
  /\ \E data \in Buffers :
       call' = Called("RawInputData accessors", data,
                      [handle |-> handle(data),
                       input_type |-> input_type(data),
                       hid_size_hid |-> hid_size_hid(data),
                       hid_count |-> hid_count(data),
                       hid_raw_data |-> hid_raw_data(data)])
  /\ fnFrame

InitFn == call = NoCall

NextFn ==
  \/ FnTryNew
  \/ FnDeviceName
  \/ FnInputRetrieval
  \/ FnHidpGetCapsArray
  \/ FnHidpGetButtons
  \/ FnGetRawInputData
  \/ FnGetInfoLog
  \/ FnHidpGetCaps
  \/ FnHidpGetValue
  \/ FnFmtLocatedErrorCode
  \/ FnLoopIteration
  \/ FnAccessors

Init == InitMain /\ InitOwn /\ InitFn

Next ==
  \/ MainRegister
  \/ MainCreateWindow
  \/ LoopError
  \/ LoopQuit
  \/ WinProcCreate
  \/ WinProcClose
  \/ WinProcDeviceAdded
  \/ WinProcDeviceRemoved
  \/ WinProcInput
  \/ WinProcOther
  \/ MainDestroyWindow
  \/ MainUnregister

Spec == Init /\ [][Next]_vars

SpecOwn == Init /\ [][NextOwn]_vars

SpecFn == Init /\ [][NextFn]_vars

\* main under the scheduling the code has: a posted quit message is
\* eventually got by GetMessageW, and straight-line code after the loop runs
SpecLive ==
  /\ Init
  /\ [][Next]_vars
  /\ WF_vars(LoopQuit)
  /\ WF_vars(MainDestroyWindow)
  /\ WF_vars(MainUnregister)

-----------------------------------------------------------------------------
(* Properties *)

Detached(h) == evt[h] \in {"detach", "detach_ok"}
Terminated == pc \in {"done", "panicked"}

\* C1: every successfully constructed Program, Shader, Texture, LocalBox and
\* GlobalBuffer has had its native release call made exactly once when it
\* has been dropped and not at all while it is live, however it was moved.
C1_ReleasedOnceAtDrop ==
  \A i \in DOMAIN objs :
    (objs[i].kind \in DropKinds /\ objs[i].raw # 0) =>
      RelCount(objs[i].kind, objs[i].raw) = (IF objs[i].st = "dropped" THEN 1 ELSE 0)

\* a moved and then dropped value of each of two kinds, each released once
C1_Witness ==
  \E i, j \in DOMAIN objs :
    /\ objs[i].kind = "Program" /\ objs[j].kind = "GlobalBuffer"
    /\ objs[i].raw # 0 /\ objs[i].moved /\ objs[i].st = "dropped"
    /\ objs[j].moved /\ objs[j].st = "dropped"
    /\ RelCount("Program", objs[i].raw) = 1
    /\ RelCount("GlobalBuffer", objs[j].raw) = 1

\* C2: a Program, Shader or Texture whose native creation call returned 0
\* never has a native release call made for it, not even at drop.
C2_NoReleaseAfterFailedCreate ==
  \A i \in DOMAIN objs :
    (objs[i].kind \in GlKinds /\ objs[i].raw = 0) => RelCount(objs[i].kind, 0) = 0

\* C3: register, create_window, Program::new, Shader::new and Texture::new
\* give a wrapper only for a non-sentinel native result; for 0/null they
\* give a typed error carrying the native error code.
C3_ErrorInsteadOfWrapper ==
  /\ \A i \in DOMAIN objs :
       (objs[i].kind \in GlKinds \cup HandleKinds) => objs[i].raw # 0
  /\ (lastCtor.ctor \in GlKinds \cup HandleKinds /\ lastCtor.nativeRet = 0) =>
       (lastCtor.res = "err" /\ lastCtor.e = lastCtor.lastErr)

\* C4: no two live wrapper values hold the same native resource, and no
\* native resource has its release function called twice.
C4_NoSharedOwnerNoDoubleRelease ==
  /\ \A i, j \in DOMAIN objs :
       (i # j /\ objs[i].st = "live" /\ objs[j].st = "live"
          /\ objs[i].raw # 0 /\ objs[i].kind = objs[j].kind) =>
         objs[i].raw # objs[j].raw
  /\ \A k \in DOMAIN released : k[2] # 0 => released[k] <= 1

\* C5: when main has ended, on whatever path, a registered class atom has
\* had UnregisterClassW called exactly once and a created window has had
\* DestroyWindow called exactly once.
C5_ReleasedOnEveryPath ==
  Terminated =>
    /\ (atom # 0 => unregCalls = 1)
    /\ (hwnd # 0 => destroyCalls = 1)

C7_FailedAttachLeavesNoEntry ==
  \A h \in Handles : evt[h] = "fail" => db_get(CAP_DATABASE, h) = None

\* C8: after a successful attach the cache contains the handle, after the
\* detach that follows it does not, after a successful re-attach it does
\* again; and the entry a successful attach leaves is the one built from
\* that attach's own fetch.
C8_AttachDetachReattach ==
  /\ \A h \in Handles :
       /\ evt[h] \in {"ok", "reok"} => h \in Keys(CAP_DATABASE)
       /\ evt[h] = "detach_ok" => h \notin Keys(CAP_DATABASE)
  /\ last.attach = "ok" => db_get(CAP_DATABASE, last.l_param) = last.fetched

\* a re-attach after attach and detach has just put its own fetch in place
C8_Witness ==
  /\ last.attach = "ok"
  /\ evt[last.l_param] = "reok"
  /\ db_get(CAP_DATABASE, last.l_param) = last.fetched

\* C9: a decoded report was decoded with the entry stored under the device
\* handle of its own header: the lookup key is that handle, and the
\* preparsed data and value capabilities used are that entry's and were
\* fetched for that device.
C9_DecodesWithOwnEntry ==
  last.decoded # None =>
    LET d == last.decoded[1]
        hdr == last.data[1]
    IN  /\ hdr.len >= RAWINPUTHEADER_SIZE
        /\ d.key = hdr.device
        /\ d.preparsed_data.dev = hdr.device
        /\ \E b \in CAP_DATABASE :
             /\ b.key = hdr.device
             /\ b.val.preparsed_data = d.preparsed_data
             /\ b.val.input_value_caps = d.value_caps
        /\ \A i \in DOMAIN d.value_caps : d.value_caps[i].src.dev = hdr.device

\* a report of the second device was decoded while both devices had entries
C9_Witness ==
  /\ last.decoded # None
  /\ Keys(CAP_DATABASE) = Handles
  /\ last.data[1].device # lookup_key_first(last.data[1])
  /\ Len(last.decoded[1].value_caps) > 0

\* C10: the cache holds at most one entry per device handle.
C10_OneEntryPerHandle ==
  \A b1, b2 \in CAP_DATABASE : b1.key = b2.key => b1 = b2

\* a successful attach of a handle that already had an entry
C10_Witness ==
  /\ last.attach = "ok"
  /\ last.replaced
  /\ Cardinality({b \in CAP_DATABASE : b.key = last.l_param}) = 1

\* the HID parsing calls parse_raw_input makes, as they appear in a trace
HidParsingCalls == {"HidP_MaxUsageListLength", "HidP_GetUsages", "HidP_GetUsageValue"}
CallsOf(trace) == {trace[i] : i \in DOMAIN trace}

\* C11: an INPUT message whose payload was read and whose device handle has
\* no entry in the cache is ignored: the handler does not abort the program,
\* makes no HID parsing call, decodes nothing and leaves the cache as it was.
C11_UnknownDeviceIgnored ==
  [][(/\ last' # last
      /\ last'.msg = WM_INPUT
      /\ last'.data # None
      /\ handle(last'.data[1]) \notin Keys(CAP_DATABASE))
     => (/\ last'.kind # "panic"
         /\ pc' = pc
         /\ last'.decoded = None
         /\ CallsOf(last'.trace) \cap HidParsingCalls = {}
         /\ CAP_DATABASE' = CAP_DATABASE)]_vars

\* C12: an INPUT payload that packs more than one HID report is skipped:
\* parse_raw_input returns without a cache lookup and without a HID parsing
\* call, and nothing of the payload is decoded.
C12_MultiReportSkipped ==
  (/\ last.msg = WM_INPUT
   /\ last.data # None
   /\ hid_count(last.data[1]).opt # None
   /\ hid_count(last.data[1]).opt[1] > 1)
  => (/\ last.decoded = None
      /\ last.kind # "panic"
      /\ CallsOf(last.trace) \cap (HidParsingCalls \cup {"db.get"}) = {}
      /\ last.def)

\* a two-report payload of a device that has a cache entry was handled
C12_Witness ==
  /\ last.msg = WM_INPUT
  /\ last.data # None
  /\ last.data[1].ty = RawInputType_HID
  /\ last.data[1].count = 2
  /\ last.data[1].device \in Keys(CAP_DATABASE)
  /\ last.decoded = None
  /\ last.def

\* the two-call retrievals, and the labels of their size query in a trace
TwoCallFns ==
  {"RawInputDevicePreparsedData::try_new", "get_raw_input_device_name",
   "input_retrieval"}
SizeQueryOf(fn) ==
  IF fn = "input_retrieval" THEN "GetRawInputData:size"
  ELSE "GetRawInputDeviceInfoW:size"
SizeQueryFailed(c) ==
  IF c.fn = "input_retrieval" THEN c.args.get_required_ret = U32_MAX
  ELSE c.args.get_required_ret # 0

\* C13: in each two-call retrieval, a size query that reports failure makes
\* the call return the native error at once: the only native call made is
\* the size query, no buffer is allocated and the fill call is not made.
C13_SizeQueryFailureStops ==
  (call.fn \in TwoCallFns /\ SizeQueryFailed(call)) =>
    /\ call.out.res = Err(call.args.lastErr)
    /\ call.out.trace = <<SizeQueryOf(call.fn)>>

\* the preparsed-data retrieval was called with a failing size query while
\* the allocation and the fill call would have succeeded
C13_Witness ==
  /\ call.fn = "RawInputDevicePreparsedData::try_new"
  /\ call.args.get_required_ret # 0
  /\ call.args.allocOk
  /\ call.args.bytes_written = call.args.size
  /\ ~call.out.res.ok

\* the calls that return a view of a buffer a native call filled
ViewFns ==
  {"hidp_get_button_caps", "hidp_get_value_caps", "hidp_get_buttons",
   "get_raw_input_data", "get_info_log"}
ViewReturned(c) == c.fn = "get_info_log" \/ c.out.ok
ViewLen(c) ==
  CASE c.fn = "get_info_log" -> c.out.taken
    [] c.fn = "get_raw_input_data" -> c.out.v[1].len
    [] OTHER -> Len(c.out.v[1])

\* C14: when the fill call reported a count that is at most the capacity
\* handed to it, the view returned has exactly that many elements.
C14_ViewHasReportedLength ==
  (/\ call.fn \in ViewFns
   /\ ViewReturned(call)
   /\ call.args.count <= call.args.capacity)
  => ViewLen(call) = call.args.count

\* C15: when the fill call of RawInputDevicePreparsedData::try_new returns a
\* count other than the size the size query gave, try_new returns the error
\* INVALID_DATA, which a failed size query never gives, and not the thread's
\* last native error.
C15_FillMismatchIsInvalidData ==
  (/\ call.fn = "RawInputDevicePreparsedData::try_new"
   /\ call.args.get_required_ret = 0
   /\ call.args.allocOk
   /\ call.args.bytes_written # call.args.size)
  => (/\ ~call.out.res.ok
      /\ call.out.res.e = INVALID_DATA
      /\ call.out.res.e # call.args.lastErr)

\* C16: when GlobalBuffer::new returns None, RawInputDevicePreparsedData::
\* try_new returns the error NOT_ENOUGH_MEMORY having made one size query
\* and one allocation attempt and no fill call.
C16_AllocFailureIsNotEnoughMemory ==
  (/\ call.fn = "RawInputDevicePreparsedData::try_new"
   /\ call.args.get_required_ret = 0
   /\ ~call.args.allocOk)
  => (/\ call.out.res = Err(NOT_ENOUGH_MEMORY)
      /\ call.out.trace = <<"GetRawInputDeviceInfoW:size", "alloc_zeroed">>)

\* try_new was called with the allocation failing while the size query had
\* succeeded and the fill call would have returned the full size
C16_Witness ==
  /\ call.fn = "RawInputDevicePreparsedData::try_new"
  /\ call.args.get_required_ret = 0
  /\ ~call.args.allocOk
  /\ call.args.bytes_written = call.args.size
  /\ call.out.res.e = NOT_ENOUGH_MEMORY

\* the wrapped HID parsing calls
HidpFns ==
  {"hidp_get_caps", "hidp_get_button_caps", "hidp_get_value_caps",
   "hidp_get_buttons", "hidp_get_usage_value", "hidp_get_scaled_usage_value",
   "hidp_get_usage_value_array"}

\* C17: each wrapped HID parsing call returns Ok exactly when the native
\* status is HidpStatus::SUCCESS and otherwise Err with that same status;
\* and no two HidpStatus constants have the same value.
C17_HidpStatusCarried ==
  /\ call.fn \in HidpFns =>
       /\ call.out.ok <=> call.args.status = HidpStatus.SUCCESS
       /\ ~call.out.ok => call.out.e = call.args.status
  /\ \A a, b \in DOMAIN HidpStatus : a # b => HidpStatus[a] # HidpStatus[b]

\* a call failed with INCOMPATIBLE_REPORT_ID and its caller can tell that
\* from BUFFER_TOO_SMALL
C17_Witness ==
  /\ call.fn = "hidp_get_usage_value"
  /\ call.args.status = HidpStatus.INCOMPATIBLE_REPORT_ID
  /\ ~call.out.ok
  /\ call.out.e # HidpStatus.BUFFER_TOO_SMALL

\* the messages win_proc has an arm for
ArmMessages == {WM_CREATE, WM_CLOSE, WM_INPUT_DEVICE_CHANGE, WM_INPUT}

\* C18: a win_proc invocation for a message other than CREATE, CLOSE,
\* INPUT_DEVICE_CHANGE and INPUT returns what DefWindowProcW returns for the
\* same hwnd, msg, w_param and l_param, and leaves the cache as it was.
C18_OtherMessagesPassThrough ==
  [][(/\ last' # last
      /\ last'.dispatched
      /\ last'.msg \notin ArmMessages)
     => (/\ last'.ret = DefWindowProcW(hwnd, last'.msg, last'.w_param, last'.l_param)
         /\ CAP_DATABASE' = CAP_DATABASE)]_vars

\* a message without an arm was handled, with parameters that differ from
\* each other, while the cache held an entry
C18_Witness ==
  /\ last.dispatched
  /\ last.msg \notin ArmMessages
  /\ last.w_param # last.l_param
  /\ last.def
  /\ CAP_DATABASE # {}

\* format_system_error gave no message for the call's code
FormatFailed(c) == c.args.w_chars = 0 \/ c.args.local_alloc_ptr = 0

\* C19 (as the code has it): formatting a LocatedErrorCode never panics, and
\* puts out the location and the code followed by the system's message
\* without its trailing line ends; when the system provides no message or
\* format_system_error fails, the message part is empty.
C19_FmtNeverPanics ==
  call.fn = "LocatedErrorCode::fmt" =>
    /\ ~call.out.panic
    /\ Len(call.out.text) = 3
    /\ call.out.text[1] = "file:line:column"
    /\ call.out.text[2] = call.args.err_code
    /\ LET err_msg == call.out.text[3]
       IN  /\ FormatFailed(call) => err_msg = <<>>
           /\ ~FormatFailed(call) =>
                /\ Len(err_msg) <= call.args.w_chars
                /\ \A i \in DOMAIN err_msg : err_msg[i] # "D800"
                /\ err_msg # <<>> => err_msg[Len(err_msg)] \notin {"CR", "LF"}

\* a code the system has no message for was formatted
C19_Witness ==
  /\ call.fn = "LocatedErrorCode::fmt"
  /\ call.args.err_code = INVALID_DATA
  /\ FormatFailed(call)
  /\ call.args.local_alloc_ptr = 0
  /\ call.args.w_chars # 0
  /\ ~call.out.panic

\* C19 (as stated): formatting never panics, and when format_system_error
\* fails the message part of the output is an "unknown error" text.
C19_FallsBackToUnknownErrorText ==
  (call.fn = "LocatedErrorCode::fmt" /\ FormatFailed(call)) =>
    /\ ~call.out.panic
    /\ call.out.text[3] # <<>>

\* C20: format_system_error returns Err exactly when FormatMessageW reported
\* 0 characters or left the pointer null, and otherwise a LocalBox of the
\* reported length holding that pointer; LocalFree is called once for a
\* LocalBox that has been dropped, and for no pointer but a LocalBox's.
C20_FormatSystemErrorResult ==
  /\ lastCtor.ctor = "LocalBox" =>
       /\ lastCtor.res = "err" <=> (lastCtor.w_chars = 0 \/ lastCtor.nativeRet = 0)
       /\ lastCtor.res = "err" => lastCtor.e = lastCtor.lastErr
       /\ lastCtor.res # "err" =>
            /\ lastCtor.len = lastCtor.w_chars
            /\ objs # <<>>
            /\ objs[Len(objs)].kind = "LocalBox"
            /\ objs[Len(objs)].raw = lastCtor.nativeRet
            /\ RelCount("LocalBox", lastCtor.nativeRet) = 0
  /\ \A i \in DOMAIN objs :
       objs[i].kind = "LocalBox" =>
         RelCount("LocalBox", objs[i].raw) = (IF objs[i].st = "dropped" THEN 1 ELSE 0)
  /\ \A k \in DOMAIN released :
       (k[1] = "LocalBox" /\ released[k] > 0) =>
         \E i \in DOMAIN objs : objs[i].kind = "LocalBox" /\ objs[i].raw = k[2]

\* a format failed with a pointer left behind, after the LocalBox of an
\* earlier successful format was dropped and freed once
C20_Witness ==
  /\ lastCtor.ctor = "LocalBox"
  /\ lastCtor.res = "err"
  /\ lastCtor.nativeRet # 0
  /\ \E i \in DOMAIN objs :
       /\ objs[i].kind = "LocalBox"
       /\ objs[i].st = "dropped"
       /\ RelCount("LocalBox", objs[i].raw) = 1

\* C21: main's loop is left (for the code after it) only by the iteration
\* that got the quit message, which is neither translated nor dispatched;
\* an iteration that got an error stays in the loop; and an iteration that
\* got any other message translates it and then dispatches it, once each.
C21_LoopLeavesOnQuitOnly ==
  /\ pc \in {"exited", "destroyed", "done"} =>
       /\ last.kind = "quit"
       /\ last.msg = WM_QUIT
  /\ last.kind = "quit" => last.calls = <<>>
  /\ last.kind = "err" =>
       /\ pc = "loop"
       /\ CallsOf(last.calls) \cap {"translate_message", "dispatch_message"} = {}
  /\ last.kind \in {"msg", "panic"} =>
       /\ last.msg # WM_QUIT
       /\ last.calls = <<"translate_message", "dispatch_message">>
  /\ last.kind = "msg" => pc = "loop"

\* the loop was left by the quit message after it had handled a device
\* arrival, and the window was destroyed
C21_Witness ==
  /\ pc = "destroyed"
  /\ last.kind = "quit"
  /\ CAP_DATABASE # {}

\* an entry whose caps and capability arrays all come from the preparsed
\* data the entry itself stores
SelfConsistent(hid) ==
  /\ hid.caps.src = hid.preparsed_data
  /\ \A i \in DOMAIN hid.input_button_caps :
       hid.input_button_caps[i] = CapOf(hid.preparsed_data, "button", i)
  /\ \A i \in DOMAIN hid.input_value_caps :
       hid.input_value_caps[i] = CapOf(hid.preparsed_data, "value", i)

\* the calls of an arrival that inserts an entry, in their order
FullFetch ==
  <<"get_raw_input_device_name", "get_raw_input_device_info",
    "GetRawInputDeviceInfoW:size", "alloc_zeroed", "GetRawInputDeviceInfoW:fill",
    "HidP_GetCaps", "HidP_GetButtonCaps", "HidP_GetValueCaps",
    "borrow_mut", "db.insert", "drop_borrow">>

\* C22: every entry of the capability cache has caps, button capabilities
\* and value capabilities that were derived from the preparsed data of that
\* same entry; a handler that inserts has made the preparsed-data fetch and
\* the three HidP capability calls, all successful, in that order before the
\* insert; and an arrival on which one of them failed inserts nothing.
C22_CacheEntriesComplete ==
  /\ \A b \in CAP_DATABASE : SelfConsistent(b.val)
  /\ "db.insert" \in CallsOf(last.trace) =>
       /\ last.trace = FullFetch
       /\ last.attach = "ok"
       /\ db_get(CAP_DATABASE, last.l_param) = last.fetched
  /\ last.attach \in {"fail_preparsed", "fail_caps"} =>
       /\ "db.insert" \notin CallsOf(last.trace)
       /\ last.fetched = None

\* an arrival has just inserted an entry that has a button and a value
\* capability, while an entry of another handle is cached
C22_Witness ==
  /\ last.attach = "ok"
  /\ \E b \in CAP_DATABASE :
       /\ b.key = last.l_param
       /\ Len(b.val.input_button_caps) > 0
       /\ Len(b.val.input_value_caps) > 0
  /\ \E b \in CAP_DATABASE : b.key # last.l_param

\* win_proc has handled a CLOSE message
CloseHandled ==
  /\ last.kind = "msg"
  /\ last.msg = WM_CLOSE

\* C23: handling CLOSE posts the quit message and returns 0 without
\* DefWindowProcW; nothing is destroyed or unregistered while the loop runs;
\* and once CLOSE was handled (and no later message makes win_proc panic)
\* the loop is eventually left and destroy_window and then the
\* unregistration of the class are called, once each.
C23_CloseLeadsToTeardown ==
  /\ [](CloseHandled => /\ quitPosted
                        /\ last.ret = Handled(0)
                        /\ ~last.def)
  /\ [](pc \in {"start", "registered", "loop"} => /\ destroyCalls = 0
                                                  /\ unregCalls = 0)
  /\ [](unregCalls > 0 => destroyCalls > 0)
  /\ CloseHandled ~> (\/ /\ pc = "done"
                         /\ destroyCalls = 1
                         /\ unregCalls = 1
                      \/ last.kind = "panic")

\* C24: get_any_message returns Err exactly when GetMessageW returned -1,
\* and Ok with the message got for every other return value, 0 included;
\* the loop iteration on an Err reports it, neither translates nor
\* dispatches, and does not break.
C24_GetMessageError ==
  call.fn = "main loop iteration" =>
    /\ ~call.out.res.ok <=> call.args.ret = -1
    /\ call.args.ret = -1 => call.out.res = Err(call.args.lastErr)
    /\ call.args.ret # -1 => call.out.res = Ok(call.args.msg)
    /\ ~call.out.res.ok => /\ call.out.it.calls = <<"eprintln">>
                           /\ ~call.out.it.brk

\* GetMessageW returned -1 and the loop iteration only reported the error
C24_Witness ==
  /\ call.fn = "main loop iteration"
  /\ call.args.ret = -1
  /\ ~call.out.res.ok
  /\ call.out.it.calls = <<"eprintln">>

\* C25: RawInputDevicePreparsedData::try_new returns Ok only when the fill
\* call returned exactly the length of the buffer allocated from the size
\* query; for any other returned value, smaller, larger or the failure
\* sentinel, it returns Err and the buffer is freed, no value being produced.
C25_FillMustMatchBuffer ==
  call.fn = "RawInputDevicePreparsedData::try_new" =>
    /\ call.out.res.ok =>
         /\ call.args.get_required_ret = 0
         /\ call.args.allocOk
         /\ call.args.bytes_written = call.args.size
         /\ call.out.res.v[1] = call.args.blob
    /\ (/\ call.args.get_required_ret = 0
        /\ call.args.allocOk
        /\ call.args.bytes_written # call.args.size)
       => /\ ~call.out.res.ok
          /\ call.out.trace = <<"GetRawInputDeviceInfoW:size", "alloc_zeroed",
                                "GetRawInputDeviceInfoW:fill", "dealloc">>

\* the fill call returned one byte less than the buffer holds and try_new
\* returned Err
C25_Witness ==
  /\ call.fn = "RawInputDevicePreparsedData::try_new"
  /\ call.args.get_required_ret = 0
  /\ call.args.allocOk
  /\ call.args.size = BlobSize
  /\ call.args.bytes_written = BlobSize - 1
  /\ ~call.out.res.ok

\* C26: a step changes the capability cache only when it is win_proc
\* handling an INPUT_DEVICE_CHANGE message, and then every bucket of a key
\* other than the message's l_param is in the cache after the step exactly
\* when it was in it before.
C26_CacheFrame ==
  [][CAP_DATABASE' # CAP_DATABASE =>
       /\ last'.kind = "msg"
       /\ last'.msg = WM_INPUT_DEVICE_CHANGE
       /\ \A b \in CAP_DATABASE \cup CAP_DATABASE' :
            b.key # last'.l_param => b \in CAP_DATABASE \cap CAP_DATABASE']_vars

\* a removal has taken the entry of its handle out of the cache while the
\* entry of the other handle is still cached
C26_Witness ==
  /\ last.msg = WM_INPUT_DEVICE_CHANGE
  /\ ~added(last.w_param)
  /\ evt[last.l_param] = "detach_ok"
  /\ \E b \in CAP_DATABASE : b.key # last.l_param

\* C27: an INPUT_DEVICE_CHANGE message whose w_param is neither 1 nor 2
\* takes the removal branch: after it the cache has no entry under the
\* handle in l_param, the handler has called db.remove and nothing else (no
\* capability fetch), and it has returned 0 without DefWindowProcW.
C27_IllegalParamIsRemoval ==
  (/\ last.kind = "msg"
   /\ last.msg = WM_INPUT_DEVICE_CHANGE
   /\ last.w_param \notin {1, 2})
  => /\ last.l_param \notin Keys(CAP_DATABASE)
     /\ last.trace = <<"borrow_mut", "db.remove", "drop_borrow">>
     /\ last.attach = "na"
     /\ last.ret = Handled(0)
     /\ ~last.def

\* a device change with w_param 3 has been handled for one handle while the
\* other handle has an entry
C27_Witness ==
  /\ last.msg = WM_INPUT_DEVICE_CHANGE
  /\ last.w_param = 3
  /\ evt[last.l_param] = "illegal"
  /\ CAP_DATABASE # {}

\* the calls during which Windows may call win_proc again
ReentrantCalls == {"DefWindowProcW", "dispatch_message"}

\* The RefCell of CAP_DATABASE run over a sequence of calls: the borrow flag
\* (0 free, -1 borrowed mutably, n > 0 shared borrows), whether a borrow
\* failed, and whether a re-entrant call was made with a borrow outstanding
RECURSIVE refcell_run(_, _)
refcell_run(calls, st) ==
  IF calls = <<>> THEN st
  ELSE LET e == Head(calls)
           nxt == CASE e = "borrow_mut" ->
                         IF st.flag # 0 THEN [st EXCEPT !.failed = TRUE]
                         ELSE [st EXCEPT !.flag = -1]
                    [] e = "borrow" ->
                         IF st.flag < 0 THEN [st EXCEPT !.failed = TRUE]
                         ELSE [st EXCEPT !.flag = st.flag + 1]
                    [] e = "drop_borrow" ->
                         [st EXCEPT !.flag = IF st.flag < 0 THEN 0 ELSE st.flag - 1]
                    [] e \in ReentrantCalls ->
                         [st EXCEPT !.held = st.held \/ st.flag # 0]
                    [] OTHER -> st
       IN  refcell_run(Tail(calls), nxt)

Unborrowed == [flag |-> 0, failed |-> FALSE, held |-> FALSE]

\* C28: run from an unborrowed cache, the calls of one loop iteration and
\* its win_proc invocation never fail a borrow, make no re-entrant call
\* (DefWindowProcW, dispatch_message) while a borrow is outstanding, and
\* leave the cache unborrowed; so every invocation, nested ones included,
\* starts from an unborrowed cache and a borrow failure cannot happen.
C28_NoBorrowConflict ==
  LET r == refcell_run(last.calls \o last.trace, Unborrowed)
  IN  /\ ~r.failed
      /\ ~r.held
      /\ r.flag = 0

\* an INPUT message was decoded under a shared borrow of the cache and then
\* passed to DefWindowProcW
C28_Witness ==
  /\ last.msg = WM_INPUT
  /\ last.decoded # None
  /\ last.def
  /\ "borrow" \in CallsOf(last.trace)

\* C29: on a byte buffer of any length no accessor of RawInputData panics;
\* handle is the null handle and input_type is not HID when the buffer is
\* shorter than the header; and hid_size_hid, hid_count and hid_raw_data are
\* None when the type is not HID or the buffer ends before the field read.
C29_AccessorsNeverPanic ==
  call.fn = "RawInputData accessors" =>
    LET data == call.args
        out == call.out
        payload == data.len - RAWINPUTHEADER_SIZE
    IN  /\ ~out.hid_size_hid.panic
        /\ ~out.hid_count.panic
        /\ data.len < RAWINPUTHEADER_SIZE =>
             /\ out.handle = 0
             /\ out.input_type # RawInputType_HID
        /\ (out.input_type # RawInputType_HID \/ payload < DWORD_SIZE) =>
             out.hid_size_hid.opt = None
        /\ (out.input_type # RawInputType_HID \/ payload < 2 * DWORD_SIZE) =>
             /\ out.hid_count.opt = None
             /\ out.hid_raw_data = None

\* C30: a step in which win_proc handles CREATE calls
\* RegisterRawInputDevices and nothing else, returns 0 when that call
\* succeeded and -1 when it failed, does not call DefWindowProcW, and leaves
\* the capability cache as it was.
C30_CreateRegistersRawInput ==
  [][(/\ last'.kind = "msg"
      /\ last'.msg = WM_CREATE)
     => /\ last'.trace = <<"RegisterRawInputDevices">>
        /\ last'.native # None
        /\ last'.native[1] # 0 => last'.ret = Handled(0)
        /\ last'.native[1] = 0 => last'.ret = Handled(-1)
        /\ ~last'.def
        /\ CAP_DATABASE' = CAP_DATABASE]_vars

\* CREATE was handled with the registration failing while the cache holds
\* an entry
C30_Witness ==
  /\ last.kind = "msg"
  /\ last.msg = WM_CREATE
  /\ last.native = Some(0)
  /\ last.ret = Handled(-1)
  /\ CAP_DATABASE # {}

====
